---- MODULE Spec2Model ----
(***************************************************************************)
(* The task orchestration core of tiptoro's gateway: a TaskContext carried *)
(* through an ordered list of Steps by Orchestrator.run, with suspension   *)
(* (await_human), resume (resume_after) and fail-fast error handling.      *)
(*                                                                         *)
(*   src/backend/gateway/context.py       TaskStatus, TaskContext          *)
(*   src/backend/gateway/loader.py        SkillRegistry                    *)
(*   src/backend/gateway/orchestrator.py  Step, Orchestrator               *)
(***************************************************************************)
EXTENDS Naturals, Sequences, FiniteSets

(* ------------------------------------------------------------------ *)
(* Bounds of the model                                                 *)
(* ------------------------------------------------------------------ *)

\* Longest pipeline built with add_step.
MaxSteps == 3

\* No handler raises once the error trail holds this many entries.
MaxErrors == 1

\* The number of skills a registry leaves undiscovered or unbound.
MaxUnwired == 1

\* The number of entries of the skills directory in one scan of load_all.
MaxDirs == 2

(* ------------------------------------------------------------------ *)
(* context.py: TaskStatus                                              *)
(* ------------------------------------------------------------------ *)

PENDING == "pending"

RUNNING == "running"

AWAITING_HUMAN == "awaiting_human"

COMPLETED == "completed"

FAILED == "failed"

TaskStatus == {PENDING, RUNNING, AWAITING_HUMAN, COMPLETED, FAILED}

(* ------------------------------------------------------------------ *)
(* Skills, handlers and conditions                                     *)
(* ------------------------------------------------------------------ *)

\* The skill names the pipeline factories use.  Step and Orchestrator only
\* compare skill names for equality and every skill is bound to a handler,
\* so the pipelines built here name their steps in this order: the k-th
\* add_step names the k-th skill (build_default_pipeline, or any pipeline of
\* distinct skills up to renaming).
SkillOrder == <<"vision-perception", "ingest-and-verify", "cognitive-analysis", "report-generation">>

SkillNames == {SkillOrder[k] : k \in 1..Len(SkillOrder)}

\* str(e) of the exceptions a handler may raise.
Messages == {"boom"}

\* What one invocation of a bound handler does: return the context, or raise.
OK == "ok"

\* Exceptions that leave run (none: run returned).
NoException == "none"

KeyError == "KeyError"

RuntimeError == "RuntimeError"

\* Step.condition: None, or a predicate over the context.
NoCondition == "None"

HasRecord == "record_id is not None"

Conditions == {NoCondition, HasRecord}

\* A predicate that raises when it is called, and the exception it raises.
Raises == "raises"

ConditionError == "Exception"

\* The handlers bound in the registry: absent from DOMAIN = not discovered.
NoHandler == "None"

Handler == "handler"

VARIABLES
    registry,   \* SkillRegistry._registry: skill name -> meta.handler
    steps,      \* Orchestrator._steps
    ctx,        \* the TaskContext the caller holds
    last,       \* the latest call of run: its arguments, what it invoked, how it ended
    regcall,    \* the latest call of load_all or register_handler
    tasks,      \* the calls of run in progress on contexts of their own
    billing     \* the tables of the billing database and the calls of activate_key

vars == <<registry, steps, ctx, last, regcall, tasks, billing>>

(* ------------------------------------------------------------------ *)
(* context.py: TaskContext                                             *)
(* ------------------------------------------------------------------ *)

\* TaskContext(status=s): the output fields of no skill populated, no errors.
TaskContext(s) == [status |-> s, written |-> {}, errors |-> <<>>]

\* add_error recording the exception's type in place of str(e).
add_error_TypeName(c, skill, message) ==
    [c EXCEPT !.errors = Append(@, [skill |-> skill, message |-> "Exception"]),
              !.status = FAILED]

\* TaskContext.add_error
\* add_error, had it kept the latest entry only.
add_error_KeepsLatest(c, skill, message) ==
    [c EXCEPT !.errors = <<[skill |-> skill, message |-> message]>>,
              !.status = FAILED]

add_error(c, skill, message) ==
    [c EXCEPT !.errors = Append(@, [skill |-> skill, message |-> message]),
              !.status = FAILED]

\* A handler that returns: it populates the output fields of its skill
\* (mock_vision_perception, mock_ingest_and_verify, mock_cognitive_analysis)
\* and returns the context it was given.
HandlerReturns(c, skill) == [c EXCEPT !.written = @ \cup {skill}]

\* A context with its task_id written out.
Identified(c, id) ==
    [task_id |-> id, status |-> c.status, written |-> c.written,
     errors |-> c.errors]

\* A handler that returns a TaskContext() it built itself, not the one it
\* was given: the outcome, and the context returned.
ReturnsOther == "returns another context"

OtherContext == Identified(TaskContext(PENDING), "task-id-2")

\* A condition evaluated on the context.
EvalCondition(cond, c) ==
    IF cond = HasRecord THEN "ingest-and-verify" \in c.written ELSE TRUE

\* Calling the condition raises instead of returning a value.
ConditionRaises(cond) == cond = Raises

(* ------------------------------------------------------------------ *)
(* orchestrator.py: Step                                               *)
(* ------------------------------------------------------------------ *)

\* Step(skill_name, await_human, condition)
Step(skill_name, await_human, condition) ==
    [skill_name |-> skill_name, await_human |-> await_human, condition |-> condition]

\* Step.run never consulting its condition.
ConditionSkips_Never(step, c) == FALSE

\* Step.run, the condition check: the step is skipped.
ConditionSkips(step, c) ==
    step.condition # NoCondition /\ ~EvalCondition(step.condition, c)

\* SkillRegistry.get and the check of meta.handler: the exception raised
\* before the handler is reached, if any.
Resolve(skill_name) ==
    IF skill_name \notin DOMAIN registry THEN KeyError
    ELSE IF registry[skill_name] = NoHandler THEN RuntimeError
    ELSE NoException

\* Step.run, had it left the status as it was before calling the handler.
Starting_KeepsStatus(c) == c

\* Step.run, from "starting" to the handler call.
Starting(c) == [c EXCEPT !.status = RUNNING]

\* Step.run never suspending.
HandlerDone_NoSuspend(step, c) == c

\* Step.run, after the handler returned c.
HandlerDone(step, c) ==
    IF step.await_human THEN [c EXCEPT !.status = AWAITING_HUMAN] ELSE c

\* Step.run applying the suspension flag after the except branch too (the
\* flag handled in a finally clause).
HandlerRaised_ThenSuspend(step, c, message) ==
    HandlerDone(step, add_error(c, step.skill_name, message))

\* Step.run recording the failure of a handler twice.
HandlerRaised_RecordsTwice(step, c, message) ==
    add_error(add_error(c, step.skill_name, message), step.skill_name, message)

\* Step.run, the except branch: the handler raised Exception(message).
HandlerRaised(step, c, message) == add_error(c, step.skill_name, message)

\* Step.run(ctx) where the handler, if called, behaves as out.  The context
\* is one object mutated in place, so ctx is what the caller holds whether
\* Step.run returns or raises.
\* Step.run, had it caught a failed lookup like a failure of the handler.
Step_run_CatchesLookup(step, c, out) ==
    IF ConditionRaises(step.condition)
    THEN [ctx |-> c, invoked |-> FALSE, exception |-> ConditionError]
    ELSE IF ConditionSkips(step, c)
    THEN [ctx |-> c, invoked |-> FALSE, exception |-> NoException]
    ELSE IF Resolve(step.skill_name) # NoException
    THEN [ctx |-> HandlerRaised(step, Starting(c), Resolve(step.skill_name)),
          invoked |-> FALSE, exception |-> NoException]
    ELSE IF out = OK
    THEN [ctx |-> HandlerDone(step, HandlerReturns(Starting(c), step.skill_name)),
          invoked |-> TRUE, exception |-> NoException]
    ELSE [ctx |-> HandlerRaised(step, Starting(c), out),
          invoked |-> TRUE, exception |-> NoException]

Step_run(step, c, out) ==
    IF ConditionRaises(step.condition)
    THEN [ctx |-> c, invoked |-> FALSE, exception |-> ConditionError]
    ELSE IF ConditionSkips(step, c)
    THEN [ctx |-> c, invoked |-> FALSE, exception |-> NoException]
    ELSE IF Resolve(step.skill_name) # NoException
    THEN [ctx |-> c, invoked |-> FALSE, exception |-> Resolve(step.skill_name)]
    ELSE IF out = OK
    THEN [ctx |-> HandlerDone(step, HandlerReturns(Starting(c), step.skill_name)),
          invoked |-> TRUE, exception |-> NoException]
    ELSE IF out = ReturnsOther
    THEN [ctx |-> HandlerDone(step, OtherContext),
          invoked |-> TRUE, exception |-> NoException]
    ELSE [ctx |-> HandlerRaised(step, Starting(c), out),
          invoked |-> TRUE, exception |-> NoException]

(* ------------------------------------------------------------------ *)
(* orchestrator.py: Orchestrator                                       *)
(* ------------------------------------------------------------------ *)

\* resume_after=None
NoResume == "None"

\* A resume_after that names no step of any pipeline.
NoSuchSkill == "no-such-skill"

\* Orchestrator.run ignoring resume_after.
InitialSkip_Never(resume_after) == FALSE

\* Orchestrator.run: skip = resume_after is not None
InitialSkip(resume_after) == resume_after # NoResume

\* Orchestrator.run resuming after the first step, whatever its name.
SkipAfter_AnyStep(step, resume_after) == FALSE

\* Orchestrator.run, the skip branch of the loop body: the value of skip
\* after a step passed over while skipping.
SkipAfter(step, resume_after) == ~(step.skill_name = resume_after)

\* Orchestrator.run without the check for FAILED.
Halts_OnlyOnSuspension(c) == c.status = AWAITING_HUMAN

\* The loop of run, had it gone on after a suspension.
Halts_OnlyOnFailure(c) == c.status = FAILED

\* Orchestrator.run, the two checks after step.run: the pipeline stops here.
Halts(c) == c.status = FAILED \/ c.status = AWAITING_HUMAN

\* Orchestrator.run, had it set COMPLETED after the loop whatever the status.
Finish_Always(c) == [c EXCEPT !.status = COMPLETED]

\* Orchestrator.run, after the loop.
Finish(c) == IF c.status = RUNNING THEN [c EXCEPT !.status = COMPLETED] ELSE c

\* One entry of the log of a run: a call of Step.run on step number step.
LogEntry(i, before, r, out) ==
    [step |-> i, invoked |-> r.invoked, outcome |-> IF r.invoked THEN out ELSE OK,
     before |-> before, after |-> r.ctx]

\* Orchestrator.run from loop position i on: the context at the end, the
\* calls of Step.run made, and the exception that left run (if any).
RECURSIVE RunFrom(_, _, _, _, _, _)
\* The loop of run, had it run a step a second time after its handler failed.
RunFrom_Retries(i, skip, c, log, resume_after, outcome) ==
    IF i > Len(steps)
    THEN [ctx |-> Finish(c), log |-> log, exception |-> NoException]
    ELSE IF skip
    THEN RunFrom(i + 1, SkipAfter(steps[i], resume_after), c, log, resume_after, outcome)
    ELSE LET r1 == Step_run(steps[i], c, outcome[i])
             l1 == Append(log, LogEntry(i, c, r1, outcome[i]))
             again == r1.exception = NoException /\ r1.ctx.status = FAILED
             r == IF again THEN Step_run(steps[i], r1.ctx, OK) ELSE r1
             lg == IF again THEN Append(l1, LogEntry(i, r1.ctx, r, OK)) ELSE l1
         IN  IF r.exception # NoException
             THEN [ctx |-> r.ctx, log |-> lg, exception |-> r.exception]
             ELSE IF Halts(r.ctx)
             THEN [ctx |-> r.ctx, log |-> lg, exception |-> NoException]
             ELSE RunFrom(i + 1, FALSE, r.ctx, lg, resume_after, outcome)

RunFrom(i, skip, c, log, resume_after, outcome) ==
    IF i > Len(steps)
    THEN [ctx |-> Finish(c), log |-> log, exception |-> NoException]
    ELSE IF skip
    THEN RunFrom(i + 1, SkipAfter(steps[i], resume_after), c, log, resume_after, outcome)
    ELSE LET r == Step_run(steps[i], c, outcome[i])
             lg == Append(log, LogEntry(i, c, r, outcome[i]))
         IN  IF r.exception # NoException
             THEN [ctx |-> r.ctx, log |-> lg, exception |-> r.exception]
             ELSE IF Halts(r.ctx)
             THEN [ctx |-> r.ctx, log |-> lg, exception |-> NoException]
             ELSE RunFrom(i + 1, FALSE, r.ctx, lg, resume_after, outcome)

\* Orchestrator.run, had it looked up the skill of every step before the loop.
Orchestrator_run_ChecksFirst(c, resume_after, outcome) ==
    LET broken == {k \in 1..Len(steps) : Resolve(steps[k].skill_name) # NoException}
    IN  IF broken = {}
        THEN RunFrom(1, InitialSkip(resume_after), c, <<>>, resume_after, outcome)
        ELSE [ctx |-> c, log |-> <<>>,
              exception |-> Resolve(steps[CHOOSE k \in broken : TRUE].skill_name)]

\* Orchestrator.run, had it resumed after the last step named resume_after
\* instead of the first.
Orchestrator_run_AfterLastMatch(c, resume_after, outcome) ==
    LET named == {k \in 1..Len(steps) : steps[k].skill_name = resume_after}
    IN  IF named = {}
        THEN RunFrom(1, InitialSkip(resume_after), c, <<>>, resume_after, outcome)
        ELSE RunFrom((CHOOSE k \in named : \A j \in named : j <= k) + 1, FALSE, c,
                     <<>>, resume_after, outcome)

\* Orchestrator.run(ctx, resume_after)
Orchestrator_run(c, resume_after, outcome) ==
    RunFrom(1, InitialSkip(resume_after), c, <<>>, resume_after, outcome)

(* ------------------------------------------------------------------ *)
(* The state machine                                                   *)
(* ------------------------------------------------------------------ *)

\* The name a pipeline of these steps gives its next step.
NextSkills(ss) == {SkillOrder[k] : k \in {j \in 1..Len(SkillOrder) : j = Len(ss) + 1}}

\* The values of resume_after tried on a pipeline of these steps: None, the
\* names in the pipeline and one name not in it.
ResumeChoices(ss) == {NoResume, NoSuchSkill} \cup {ss[k].skill_name : k \in 1..Len(ss)}

\* What the handlers of a pipeline of n steps may do in one run on context
\* c: all return, or the handler of one step raises (run stops at the first
\* handler that raises, so what the handlers after it would do is not an input).
HandlerOutcomes(n, c) ==
    {[k \in 1..n |-> OK]} \cup
    {[k \in 1..n |-> IF k = f THEN m ELSE OK] :
        f \in {j \in 1..n : Len(c.errors) < MaxErrors}, m \in Messages}

\* The record of the latest call of run.
NoCall(c) ==
    [called |-> FALSE, resume_after |-> NoResume, entry |-> c, log |-> <<>>,
     exception |-> NoException]

\* No call of load_all or register_handler recorded.
NoRegCall == [op |-> "none"]

\* The host's tasks, each with a TaskContext of its own.
Tasks == {"task-a", "task-b"}

\* No task has called run.
NoTasks == <<>>

\* The callers of activate_key, each in a session of its own.
Callers == {"caller-a", "caller-b"}

\* The tables after init_db, nobody inside activate_key.
NoBilling == [activation_keys |-> <<>>, subscriptions |-> <<>>, calls |-> <<>>]

\* The registry after load_all and register_handler for every skill, a new
\* Orchestrator, and a context the caller constructed.
Init ==
    /\ registry = [n \in SkillNames |-> Handler]
    /\ steps = <<>>
    /\ \E s \in TaskStatus : ctx = TaskContext(s)
    /\ last = NoCall(ctx)
    /\ regcall = NoRegCall
    /\ tasks = NoTasks
    /\ billing = NoBilling

\* Orchestrator.add_step, while the pipeline is being defined.
add_step(skill_name, await_human, condition) ==
    /\ ~last.called
    /\ Len(steps) < MaxSteps
    /\ skill_name \in NextSkills(steps)
    /\ steps' = Append(steps, Step(skill_name, await_human, condition))
    /\ UNCHANGED <<registry, ctx, last, regcall, tasks, billing>>

\* await Orchestrator.run(ctx, resume_after), the handlers behaving as outcome.
run(resume_after, outcome) ==
    /\ LET r == Orchestrator_run(ctx, resume_after, outcome)
       IN  /\ ctx' = r.ctx
           /\ last' = [called |-> TRUE, resume_after |-> resume_after, entry |-> ctx,
                       log |-> r.log, exception |-> r.exception]
    /\ UNCHANGED <<registry, steps, regcall, tasks, billing>>

\* Of these outcomes, the ones of a run with this resume_after: a handler the
\* run skips past on its way to the resume point is never called, so it is
\* never the one that raises.
Called(outcomes, resume_after) ==
    {o \in outcomes :
        \A k \in 1..Len(steps) :
            o[k] # OK =>
                \/ resume_after = NoResume
                \/ \E j \in 1..(k - 1) : steps[j].skill_name = resume_after}

Next ==
    \/ \E n \in SkillNames, a \in BOOLEAN, c \in Conditions : add_step(n, a, c)
    \/ \E ra \in ResumeChoices(steps) :
           \E o \in Called(HandlerOutcomes(Len(steps), ctx), ra) : run(ra, o)

Spec == Init /\ [][Next]_vars

(* ------------------------------------------------------------------ *)
(* Runs that fail on a context already holding errors                  *)
(* ------------------------------------------------------------------ *)

\* What the handlers do during one run: as HandlerOutcomes, and a handler may
\* also raise on a context whose error trail already holds MaxErrors entries.
TrailOutcomes(n, c) ==
    {[k \in 1..n |-> OK]} \cup
    {[k \in 1..n |-> IF k = f THEN m ELSE OK] :
        f \in {j \in 1..n : Len(c.errors) <= MaxErrors}, m \in Messages}

\* Pipelines without conditions, run again and again on the same context.
NextTrail ==
    \/ \E n \in SkillNames, a \in BOOLEAN : add_step(n, a, NoCondition)
    \/ \E ra \in ResumeChoices(steps) :
           \E o \in Called(TrailOutcomes(Len(steps), ctx), ra) : run(ra, o)

SpecTrail == Init /\ [][NextTrail]_vars

(* ------------------------------------------------------------------ *)
(* Pipelines over a registry that is not fully wired                   *)
(* ------------------------------------------------------------------ *)

\* The registries load_all and register_handler can leave: some of the
\* skills discovered, some of those bound.
Unwired(reg) == {n \in SkillNames : n \notin DOMAIN reg \/ reg[n] = NoHandler}

Registries ==
    {reg \in UNION {[D -> {NoHandler, Handler}] : D \in SUBSET SkillNames} :
        Cardinality(Unwired(reg)) <= MaxUnwired}

\* The conditions given to steps here: also a predicate that raises.
WiringConditions == {NoCondition, Raises}

\* Some registry, a new Orchestrator and a new TaskContext().
InitWiring ==
    /\ registry \in Registries
    /\ steps = <<>>
    /\ ctx = TaskContext(PENDING)
    /\ last = NoCall(ctx)
    /\ regcall = NoRegCall
    /\ tasks = NoTasks
    /\ billing = NoBilling

NextWiring ==
    \/ \E n \in SkillNames, c \in WiringConditions : add_step(n, FALSE, c)
    \/ \E ra \in ResumeChoices(steps) :
           \E o \in Called(HandlerOutcomes(Len(steps), ctx), ra) : run(ra, o)

SpecWiring == InitWiring /\ [][NextWiring]_vars

(* ------------------------------------------------------------------ *)
(* Reading the record of the latest run                                *)
(* ------------------------------------------------------------------ *)

\* run was called and returned (no exception left it).
Returned == last.called /\ last.exception = NoException

\* The positions in the log of the calls of Step.run that invoked a handler.
InvokedAt == {k \in 1..Len(last.log) : last.log[k].invoked}

\* The handler invoked at log position k raised.
RaisedAt(k) == last.log[k].invoked /\ last.log[k].outcome # OK

\* The steps whose handler the latest run invoked, in the order of invocation.
InvokedSteps(lg) ==
    LET inv == SelectSeq(lg, LAMBDA e : e.invoked)
    IN  [k \in 1..Len(inv) |-> inv[k].step]

\* The steps named name.
StepsNamed(name) == {k \in 1..Len(steps) : steps[k].skill_name = name}

\* The pipeline has the shape of build_default_pipeline: three steps, the
\* first a suspension point, no conditions.
DefaultShape ==
    /\ Len(steps) = 3
    /\ steps[1].await_human /\ ~steps[2].await_human /\ ~steps[3].await_human
    /\ \A k \in 1..3 : steps[k].condition = NoCondition

(* ------------------------------------------------------------------ *)
(* C1                                                                  *)
(* ------------------------------------------------------------------ *)

\* C1 (as claimed): a run without resume_after entered with status PENDING
\* returns with status COMPLETED, FAILED or AWAITING_HUMAN, never PENDING or
\* RUNNING, for every pipeline.
C1_RunFromPendingEndsSettled ==
    (Returned /\ last.resume_after = NoResume /\ last.entry.status = PENDING)
        => ctx.status \in {COMPLETED, FAILED, AWAITING_HUMAN}

(* ------------------------------------------------------------------ *)
(* C2                                                                  *)
(* ------------------------------------------------------------------ *)

\* The latest run was the first run of the scenario: no resume_after, entered
\* PENDING with an empty error trail and no output populated, no handler raised.
C2_FirstRun(l) ==
    /\ l.called /\ l.resume_after = NoResume
    /\ l.entry = TaskContext(PENDING)
    /\ \A k \in 1..Len(l.log) : l.log[k].outcome = OK

\* The step taken is the run that follows it: resume_after names step A and
\* no handler raises.
C2_SecondRun ==
    /\ C2_FirstRun(last)
    /\ last' # last
    /\ last'.called /\ last'.resume_after = steps[1].skill_name
    /\ \A k \in 1..Len(last'.log) : last'.log[k].outcome = OK

C2_Step ==
    DefaultShape =>
        /\ C2_FirstRun(last') =>
              /\ last'.exception = NoException
              /\ InvokedSteps(last'.log) = <<1>>
              /\ ctx'.status = AWAITING_HUMAN
              /\ ctx'.errors = <<>>
        /\ C2_SecondRun =>
              /\ last'.entry = ctx
              /\ last'.exception = NoException
              /\ InvokedSteps(last'.log) = <<2, 3>>
              /\ ctx'.status = COMPLETED
              /\ ctx'.errors = <<>>

\* C2: on a pipeline [A (await_human), B, C] whose handlers succeed, run on a
\* fresh PENDING context invokes only A's handler and returns AWAITING_HUMAN
\* with an empty error trail; the run with resume_after=A that follows invokes
\* exactly B then C, not A, and returns COMPLETED with the trail still empty.
C2_SuspendThenResume == [][C2_Step]_vars

\* The resumed run of the scenario has returned COMPLETED after B and C.
C2_Witness ==
    /\ DefaultShape
    /\ Returned /\ last.resume_after = steps[1].skill_name
    /\ last.entry = [status |-> AWAITING_HUMAN, written |-> {steps[1].skill_name},
                     errors |-> <<>>]
    /\ InvokedSteps(last.log) = <<2, 3>>
    /\ ctx.status = COMPLETED /\ ctx.errors = <<>>
    /\ ctx.written = {steps[k].skill_name : k \in 1..3}

(* ------------------------------------------------------------------ *)
(* C3                                                                  *)
(* ------------------------------------------------------------------ *)

\* C3: if the handler of a step raises during run, the error trail at return
\* is the trail at entry plus exactly one entry, whose skill is the failing
\* step's skill name, and no step after the failing one is run.
C3_OneErrorAndHalt ==
    \A k \in 1..Len(last.log) :
        RaisedAt(k) =>
            /\ Len(ctx.errors) = Len(last.entry.errors) + 1
            /\ SubSeq(ctx.errors, 1, Len(last.entry.errors)) = last.entry.errors
            /\ ctx.errors[Len(ctx.errors)].skill = steps[last.log[k].step].skill_name
            /\ \A j \in 1..Len(last.log) : last.log[j].step <= last.log[k].step

\* A handler raised in a step that has steps after it, after an earlier step's
\* handler had returned.
C3_Witness ==
    /\ Returned
    /\ \E k \in 1..Len(last.log) :
          /\ RaisedAt(k)
          /\ last.log[k].step < Len(steps)
          /\ k > 1 /\ last.log[1].invoked

(* ------------------------------------------------------------------ *)
(* C4                                                                  *)
(* ------------------------------------------------------------------ *)

\* C4: run(ctx, resume_after=S) with S the name of a step of the pipeline
\* runs only steps positioned strictly after the step named S: Step.run is
\* not called on that step or any step before it, and the first step run
\* receives the context as it was on entry.
C4_ResumeRunsOnlyLaterSteps ==
    (last.called /\ last.resume_after # NoResume) =>
        \A m \in StepsNamed(last.resume_after) :
            /\ \A k \in 1..Len(last.log) : last.log[k].step > m
            /\ Len(last.log) > 0 => last.log[1].before = last.entry

\* A resume after the second of three steps invoked the third step's handler.
C4_Witness ==
    /\ Returned /\ Len(steps) = 3
    /\ last.resume_after = steps[2].skill_name
    /\ InvokedSteps(last.log) = <<3>>

(* ------------------------------------------------------------------ *)
(* C5                                                                  *)
(* ------------------------------------------------------------------ *)

\* C5: whenever the handler of a step flagged await_human returns, run
\* returns with status AWAITING_HUMAN and runs no later step, wherever in the
\* pipeline the flagged step is.
C5_AwaitHumanSuspends ==
    \A k \in 1..Len(last.log) :
        (last.log[k].invoked /\ last.log[k].outcome = OK
            /\ steps[last.log[k].step].await_human) =>
            /\ Returned
            /\ ctx.status = AWAITING_HUMAN
            /\ k = Len(last.log)

\* The suspending step was the middle one of three, with an unflagged step
\* run before it and a step left after it.
C5_Witness ==
    /\ Returned /\ Len(steps) = 3
    /\ steps[2].await_human
    /\ InvokedSteps(last.log) = <<1, 2>>
    /\ ctx.status = AWAITING_HUMAN

(* ------------------------------------------------------------------ *)
(* C6                                                                  *)
(* ------------------------------------------------------------------ *)

\* C6: a step whose condition evaluates false on the context is a no-op: its
\* handler is not invoked, and status, output fields and error trail are the
\* same after Step.run as before it.
C6_FalseConditionIsNoOp ==
    \A k \in 1..Len(last.log) :
        LET e == last.log[k]
        IN  (steps[e.step].condition # NoCondition
                /\ ~EvalCondition(steps[e.step].condition, e.before)) =>
                /\ ~e.invoked
                /\ e.after = e.before

\* The second of three steps was skipped by its condition, between two steps
\* whose handlers were invoked.
C6_Witness ==
    /\ Returned /\ Len(last.log) = 3
    /\ steps[2].condition = HasRecord
    /\ ~EvalCondition(HasRecord, last.log[2].before)
    /\ last.log[2].before.status = RUNNING
    /\ InvokedSteps(last.log) = <<1, 3>>

(* ------------------------------------------------------------------ *)
(* C7                                                                  *)
(* ------------------------------------------------------------------ *)

\* C7 (as claimed): run(ctx, resume_after=X) where no step is named X invokes
\* no handler and returns the context unchanged, its status the status on
\* entry, for every entry status.
C7_UnknownResumeIsNoOp ==
    (last.called /\ last.resume_after # NoResume
        /\ StepsNamed(last.resume_after) = {}) =>
        /\ Returned
        /\ InvokedAt = {}
        /\ ctx = last.entry

(* ------------------------------------------------------------------ *)
(* C8                                                                  *)
(* ------------------------------------------------------------------ *)

\* C8 (as claimed): run without resume_after on a context whose status is
\* COMPLETED executes no step: no handler is invoked, no output field is
\* written and the status stays COMPLETED.
C8_RunOnCompletedIsNoOp ==
    (last.called /\ last.resume_after = NoResume
        /\ last.entry.status = COMPLETED) =>
        /\ InvokedAt = {}
        /\ ctx.written = last.entry.written
        /\ ctx.status = COMPLETED

(* ------------------------------------------------------------------ *)
(* C9                                                                  *)
(* ------------------------------------------------------------------ *)

\* C9: a failure raised by a handler does not leave run: run returns with
\* status FAILED, also when the failing step is flagged await_human.
C9_HandlerFailureReturnsFailed ==
    \A k \in 1..Len(last.log) :
        RaisedAt(k) => (Returned /\ ctx.status = FAILED)

\* The handler of a step flagged await_human raised and run returned FAILED.
C9_Witness ==
    /\ Returned /\ ctx.status = FAILED
    /\ \E k \in 1..Len(last.log) :
          RaisedAt(k) /\ steps[last.log[k].step].await_human

(* ------------------------------------------------------------------ *)
(* C10                                                                 *)
(* ------------------------------------------------------------------ *)

\* The latest run is the scenario: pipeline [A, B], a PENDING context with an
\* empty error trail, no resume_after, A's handler returned, B's raised.
C10_Scenario ==
    /\ last.called /\ Len(steps) = 2
    /\ last.resume_after = NoResume
    /\ last.entry.status = PENDING /\ last.entry.errors = <<>>
    /\ Len(last.log) = 2
    /\ last.log[1].step = 1 /\ last.log[1].invoked /\ last.log[1].outcome = OK
    /\ last.log[2].step = 2 /\ RaisedAt(2)

\* C10: in a pipeline [A, B] where A's handler returns and B's raises with
\* message m, run on a PENDING context with an empty trail returns FAILED with
\* error trail exactly [{skill: B, message: m}], and the fields A wrote stay
\* written.
C10_FailFastNoRollback ==
    C10_Scenario =>
        /\ Returned
        /\ ctx.status = FAILED
        /\ ctx.errors = <<[skill |-> steps[2].skill_name,
                           message |-> last.log[2].outcome]>>
        /\ steps[1].skill_name \in ctx.written
        /\ ctx.written = last.log[1].after.written

\* The scenario happened with m = "boom".
C10_Witness ==
    /\ C10_Scenario
    /\ last.log[2].outcome = "boom"
    /\ ctx.status = FAILED

(* ------------------------------------------------------------------ *)
(* C11                                                                 *)
(* ------------------------------------------------------------------ *)

\* The call of Step.run at log position k reached the lookup of a skill that
\* is not in the registry or has no handler: its condition did not skip it.
LookupFailsAt(k) ==
    LET e == last.log[k]
    IN  /\ ~ConditionRaises(steps[e.step].condition)
        /\ ~ConditionSkips(steps[e.step], e.before)
        /\ (steps[e.step].skill_name \notin DOMAIN registry
            \/ registry[steps[e.step].skill_name] = NoHandler)

\* C11: when run reaches a step that is not skipped and whose skill is not in
\* the registry or has no handler, an exception leaves run (KeyError for an
\* unknown skill, RuntimeError for an unbound one); that step's handler is
\* not invoked, no later step is run, and the context keeps the error trail,
\* the status and the output fields it had when the step was reached.
C11_WiringErrorPropagates ==
    \A k \in 1..Len(last.log) :
        LookupFailsAt(k) =>
            /\ last.exception \in {KeyError, RuntimeError}
            /\ (last.exception = KeyError) =
                   (steps[last.log[k].step].skill_name \notin DOMAIN registry)
            /\ ~last.log[k].invoked
            /\ k = Len(last.log)
            /\ ctx = last.log[k].before
            /\ ctx.errors = last.log[k].before.errors
            /\ ctx.status = last.log[k].before.status

\* The second of three steps had no handler bound: the first handler ran and
\* left the status RUNNING, the exception left run, the third step never ran.
C11_Witness ==
    /\ last.called /\ Len(steps) = 3
    /\ last.exception = RuntimeError
    /\ Len(last.log) = 2 /\ LookupFailsAt(2)
    /\ InvokedSteps(last.log) = <<1>>
    /\ ctx.status = RUNNING /\ ctx.errors = <<>>

(* ------------------------------------------------------------------ *)
(* C12                                                                 *)
(* ------------------------------------------------------------------ *)

\* C12: a call run(ctx, resume_after=X) with X not a skill in the registry
\* ends with an exception leaving run, and the error trail is the one the
\* context had on entry.
C12_UnknownResumeTargetRaises ==
    (last.called /\ last.resume_after # NoResume
        /\ last.resume_after \notin DOMAIN registry) =>
        /\ last.exception # NoException
        /\ ctx.errors = last.entry.errors

(* ------------------------------------------------------------------ *)
(* C13                                                                 *)
(* ------------------------------------------------------------------ *)

\* C13: when the condition of a step raises, run returns without an
\* exception, the status is FAILED, and the error trail is the one the step
\* was reached with plus one entry naming that step's skill.
C13_RaisingConditionIsHandlerError ==
    \A k \in 1..Len(last.log) :
        ConditionRaises(steps[last.log[k].step].condition) =>
            /\ Returned
            /\ ctx.status = FAILED
            /\ Len(ctx.errors) = Len(last.log[k].before.errors) + 1
            /\ ctx.errors[Len(ctx.errors)].skill = steps[last.log[k].step].skill_name

(* ------------------------------------------------------------------ *)
(* C14                                                                 *)
(* ------------------------------------------------------------------ *)

\* The position of the first step a run with this resume_after does not skip:
\* the first step, or the one after the step named resume_after, or past the
\* end when no step has that name.
FirstRun(resume_after) ==
    IF resume_after = NoResume THEN 1
    ELSE IF StepsNamed(resume_after) = {} THEN Len(steps) + 1
    ELSE (CHOOSE k \in StepsNamed(resume_after) :
              \A j \in StepsNamed(resume_after) : k <= j) + 1

\* C14: within one call of run, Step.run is called on consecutive steps in
\* the order of add_step, starting at the first step or at the one after the
\* resume point; so the handlers are invoked in strictly increasing step
\* position, none before the resume point and none twice.
C14_InvocationsFollowConstructionOrder ==
    last.called =>
        /\ \A k \in 1..Len(last.log) :
               last.log[k].step = FirstRun(last.resume_after) + k - 1
        /\ LET inv == InvokedSteps(last.log)
           IN  /\ \A j, k \in 1..Len(inv) : j < k => inv[j] < inv[k]
               /\ \A k \in 1..Len(inv) :
                      inv[k] \in FirstRun(last.resume_after)..Len(steps)

\* A run resumed after the first of three steps invoked the second handler
\* and then the third, which raised and was not run again.
C14_Witness ==
    /\ Returned /\ Len(steps) = 3
    /\ last.resume_after = steps[1].skill_name
    /\ InvokedSteps(last.log) = <<2, 3>>
    /\ RaisedAt(2)
    /\ ctx.status = FAILED

(* ------------------------------------------------------------------ *)
(* C16                                                                 *)
(* ------------------------------------------------------------------ *)

\* Sequence s is a prefix of sequence t.
IsPrefix(s, t) ==
    /\ Len(s) <= Len(t)
    /\ \A k \in 1..Len(s) : s[k] = t[k]

\* One step of the program keeps the error trail as a prefix of the new one,
\* and so did every call of Step.run made within it.
C16_Step ==
    /\ IsPrefix(ctx.errors, ctx'.errors)
    /\ \A k \in 1..Len(last'.log) :
           IsPrefix(last'.log[k].before.errors, last'.log[k].after.errors)

\* C16: the error trail is append-only: across every sequence of add_step and
\* run calls (resumed or not, completing, suspending or failing) the error
\* trail before a call is a prefix of the error trail after it, so entries
\* are never removed, reordered or cleared.
C16_ErrorTrailAppendOnly == [][C16_Step]_vars

\* A resumed run failed on a context that already held the error of an
\* earlier run: the trail holds the old entry and then the new one.
C16_Witness ==
    /\ Returned /\ last.resume_after \notin {NoResume, NoSuchSkill}
    /\ Len(last.entry.errors) = 1
    /\ Len(ctx.errors) = 2
    /\ ctx.errors[1] = last.entry.errors[1]
    /\ ctx.errors[2].skill # ctx.errors[1].skill
    /\ ctx.status = FAILED

(* ------------------------------------------------------------------ *)
(* C17                                                                 *)
(* ------------------------------------------------------------------ *)

\* The latest run set the status to COMPLETED: the context came back
\* COMPLETED and either did not enter so or a step changed it on the way.
SetCompleted ==
    /\ last.called /\ ctx.status = COMPLETED
    /\ (last.entry.status # COMPLETED \/ InvokedAt # {})

\* C17: whenever run sets the status to COMPLETED, it returned after calling
\* Step.run on every step of its range (all steps, or those after the resume
\* point), each of which was skipped by its condition or had its handler
\* return without raising, and no step whose handler ran is flagged
\* await_human.
C17_CompletedOnlyAfterWholeRange ==
    SetCompleted =>
        /\ Returned
        /\ Len(last.log) = Len(steps) + 1 - FirstRun(last.resume_after)
        /\ \A k \in 1..Len(last.log) :
               /\ last.log[k].step = FirstRun(last.resume_after) + k - 1
               /\ last.log[k].invoked => last.log[k].outcome = OK
               /\ last.log[k].invoked => ~steps[last.log[k].step].await_human
               /\ ~last.log[k].invoked =>
                      ~EvalCondition(steps[last.log[k].step].condition,
                                     last.log[k].before)

\* A run resumed after the suspension point completed: the handlers of the
\* two steps after it ran, the second one under a condition that held.
C17_Witness ==
    /\ SetCompleted /\ Len(steps) = 3
    /\ last.entry.status = AWAITING_HUMAN
    /\ last.resume_after = steps[1].skill_name
    /\ steps[1].await_human
    /\ steps[3].condition = HasRecord
    /\ InvokedSteps(last.log) = <<2, 3>>

(* ------------------------------------------------------------------ *)
(* loader.py: SkillRegistry.load_all and register_handler              *)
(* ------------------------------------------------------------------ *)

\* What load_all finds at an entry of SKILLS_ROOT: an entry that is not a
\* directory or holds no SKILL.md; a SKILL.md that read_text cannot read; one
\* whose content does not start with "---"; one whose frontmatter does not
\* split or parse or has no name; one that parses to a name.
NoDescriptor == "no-descriptor"

Unreadable == "unreadable"

NoFrontmatter == "no-frontmatter"

Unparsable == "unparsable"

Named == "named"

\* The names the descriptors of a scan carry.
ScanNames == {SkillOrder[1], SkillOrder[2]}

Entries ==
    {[kind |-> k, name |-> "None"] :
        k \in {NoDescriptor, Unreadable, NoFrontmatter, Unparsable}}
    \cup {[kind |-> Named, name |-> n] : n \in ScanNames}

\* SKILLS_ROOT does not exist.
MissingRoot == [exists |-> FALSE, entries |-> <<>>]

\* What one call of load_all finds: no SKILLS_ROOT, or
\* sorted(SKILLS_ROOT.iterdir()).
Scans ==
    {MissingRoot} \cup
    {[exists |-> TRUE, entries |-> e] : e \in UNION {[1..n -> Entries] : n \in 0..MaxDirs}}

FileNotFoundError == "FileNotFoundError"

\* The exception of read_text.
ReadError == "OSError"

NotParsed == "None"

\* load_all without the clear.
Cleared_Keeps(reg) == reg

\* self._registry.clear()
Cleared(reg) == [n \in {} |-> NoHandler]

\* SkillRegistry._parse_skill_md on a SKILL.md that can be read: the name of
\* the SkillMeta it returns, or None.
parse_skill_md(entry) ==
    IF entry.kind = NoFrontmatter THEN NotParsed
    ELSE IF entry.kind = Unparsable THEN NotParsed
    ELSE entry.name

\* self._registry[meta.name] = meta, a SkillMeta without handler
Registered(reg, name) ==
    [n \in DOMAIN reg \cup {name} |-> IF n = name THEN NoHandler ELSE reg[n]]

\* The loop of load_all from entry i on.
RECURSIVE LoadFrom(_, _, _)
LoadFrom(i, reg, scan) ==
    IF i > Len(scan)
    THEN [registry |-> reg, exception |-> NoException]
    ELSE IF scan[i].kind = NoDescriptor
    THEN LoadFrom(i + 1, reg, scan)
    ELSE IF scan[i].kind = Unreadable
    THEN [registry |-> reg, exception |-> ReadError]
    ELSE IF parse_skill_md(scan[i]) = NotParsed
    THEN LoadFrom(i + 1, reg, scan)
    ELSE LoadFrom(i + 1, Registered(reg, parse_skill_md(scan[i])), scan)

\* load_all, had it checked that the skills directory exists before clearing
\* the registry.
SkillRegistry_load_all_ChecksFirst(reg, scan) ==
    IF ~scan.exists
    THEN [registry |-> reg, exception |-> FileNotFoundError]
    ELSE LoadFrom(1, Cleared(reg), scan.entries)

\* SkillRegistry.load_all
SkillRegistry_load_all(reg, scan) ==
    IF ~scan.exists
    THEN [registry |-> Cleared(reg), exception |-> FileNotFoundError]
    ELSE LoadFrom(1, Cleared(reg), scan.entries)

\* register_handler creating the entry of a skill that is not registered.
SkillRegistry_register_handler_Creates(reg, skill_name) ==
    [registry |-> [n \in DOMAIN reg \cup {skill_name} |->
                      IF n = skill_name THEN Handler ELSE reg[n]],
     exception |-> NoException]

\* SkillRegistry.register_handler
SkillRegistry_register_handler(reg, skill_name) ==
    IF skill_name \notin DOMAIN reg
    THEN [registry |-> reg, exception |-> KeyError]
    ELSE [registry |-> [reg EXCEPT ![skill_name] = Handler],
          exception |-> NoException]

\* A new SkillRegistry(), no pipeline.
InitRegistry ==
    /\ registry = [n \in {} |-> NoHandler]
    /\ steps = <<>>
    /\ ctx = TaskContext(PENDING)
    /\ last = NoCall(ctx)
    /\ regcall = NoRegCall
    /\ tasks = NoTasks
    /\ billing = NoBilling

load_all(scan) ==
    /\ LET r == SkillRegistry_load_all(registry, scan)
       IN  /\ registry' = r.registry
           /\ regcall' = [op |-> "load_all", scan |-> scan, before |-> registry,
                          exception |-> r.exception]
    /\ UNCHANGED <<steps, ctx, last, tasks, billing>>

register_handler(skill_name) ==
    /\ LET r == SkillRegistry_register_handler(registry, skill_name)
       IN  /\ registry' = r.registry
           /\ regcall' = [op |-> "register_handler", skill_name |-> skill_name,
                          before |-> registry, exception |-> r.exception]
    /\ UNCHANGED <<steps, ctx, last, tasks, billing>>

NextRegistry ==
    \/ \E scan \in Scans : load_all(scan)
    \/ \E n \in SkillNames : register_handler(n)

SpecRegistry == InitRegistry /\ [][NextRegistry]_vars

(* ------------------------------------------------------------------ *)
(* C18                                                                 *)
(* ------------------------------------------------------------------ *)

\* C18: register_handler on a name that is not in the registry raises
\* KeyError and leaves the registry, names and handlers, as it was; on a name
\* in the registry it binds the handler of that skill and leaves the names
\* and every other skill's handler as they were.
C18_RegisterHandlerOnlyOnDiscovered ==
    regcall.op = "register_handler" =>
        IF regcall.skill_name \notin DOMAIN regcall.before
        THEN /\ regcall.exception = KeyError
             /\ registry = regcall.before
        ELSE /\ regcall.exception = NoException
             /\ DOMAIN registry = DOMAIN regcall.before
             /\ registry[regcall.skill_name] = Handler
             /\ \A n \in DOMAIN registry \ {regcall.skill_name} :
                    registry[n] = regcall.before[n]

\* register_handler failed for a skill no scan had found, in a registry that
\* holds one bound and one unbound skill.
C18_Witness ==
    /\ regcall.op = "register_handler"
    /\ regcall.exception = KeyError
    /\ regcall.skill_name \notin DOMAIN registry
    /\ \E a, b \in DOMAIN registry : registry[a] = Handler /\ registry[b] = NoHandler

(* ------------------------------------------------------------------ *)
(* C19                                                                 *)
(* ------------------------------------------------------------------ *)

\* The names of the descriptors of a scan that parse to a name.
WellFormedNames(scan) ==
    {scan.entries[k].name :
        k \in {j \in 1..Len(scan.entries) : scan.entries[j].kind = Named}}

\* C19: after a load_all that returned, the names in the registry are exactly
\* the names of the descriptors of that scan that parse to a name, whatever
\* the registry held before and whatever other entries the scan met, and no
\* skill has a handler.
C19_LoadAllReplacesRegistry ==
    (regcall.op = "load_all" /\ regcall.exception = NoException) =>
        /\ DOMAIN registry = WellFormedNames(regcall.scan)
        /\ \A n \in DOMAIN registry : registry[n] = NoHandler

\* A scan that met a descriptor without frontmatter and then a well-formed
\* one, on a registry that held another skill, bound: only the skill of this
\* scan is registered.
C19_Witness ==
    /\ regcall.op = "load_all" /\ regcall.exception = NoException
    /\ Len(regcall.scan.entries) = 2
    /\ regcall.scan.entries[1].kind = NoFrontmatter
    /\ regcall.scan.entries[2].kind = Named
    /\ \E n \in DOMAIN regcall.before :
           /\ regcall.before[n] = Handler
           /\ n \notin DOMAIN registry
    /\ DOMAIN registry = {regcall.scan.entries[2].name}

(* ------------------------------------------------------------------ *)
(* Two calls of run in progress at once                                *)
(* ------------------------------------------------------------------ *)

\* The pipelines the tasks share: built before any task runs.
Pipelines ==
    UNION {{[k \in 1..n |-> Step(SkillOrder[k], aw[k], cond[k])] :
               aw \in [1..n -> BOOLEAN], cond \in [1..n -> Conditions]} :
           n \in 0..MaxSteps}

\* The context the handler awaited by task t works on: the one passed to run,
\* had the tasks shared one context.
HandlerContext_Shared(t) == tasks[CHOOSE u \in DOMAIN tasks : TRUE].ctx

\* The context the handler awaited by task t works on: the one passed to run.
HandlerContext(t) == tasks[t].ctx

\* What the handlers of a finished or running task did, as an outcome for
\* every step: what its log shows, OK for the steps it did not reach.
OutcomeOf(lg) ==
    [k \in 1..Len(steps) |->
        IF \E j \in 1..Len(lg) : lg[j].step = k
        THEN lg[CHOOSE j \in 1..Len(lg) : lg[j].step = k].outcome
        ELSE OK]

\* The registry wired for every skill, some pipeline, no task running.
InitConcurrent ==
    /\ registry = [n \in SkillNames |-> Handler]
    /\ steps \in Pipelines
    /\ ctx = TaskContext(PENDING)
    /\ last = NoCall(ctx)
    /\ regcall = NoRegCall
    /\ tasks = NoTasks
    /\ billing = NoBilling

\* How Step.run calls a handler: a coroutine function is awaited, any other
\* handler is run by asyncio.to_thread, which is awaited.
Coroutine == "coroutine"

ToThread == "to_thread"

\* Step.run, had it started a handler of the other kind without awaiting it.
Awaits_OnlyCoroutines(via) == via = Coroutine

\* Step.run awaits the handler it called, of either kind.
Awaits(via) == TRUE

\* The handlers of a task in flight, after Step.run called the one of step i.
Launched(inflight, i, via) == inflight \cup {[step |-> i, via |-> via]}

\* The handlers of a task in flight, after the one of step i returned or
\* raised.
Joined(inflight, i) == {h \in inflight : h.step # i}

\* Task t calls run on context c: Orchestrator.run up to the loop.
enter(t, resume_after, c) ==
    /\ t \notin DOMAIN tasks
    /\ tasks' = [u \in DOMAIN tasks \cup {t} |->
           IF u # t THEN tasks[u]
           ELSE [pc |-> "loop", i |-> 1, skip |-> InitialSkip(resume_after),
                 ctx |-> c, entry |-> c, before |-> c,
                 resume_after |-> resume_after, log |-> <<>>,
                 exception |-> NoException, inflight |-> {}]]
    /\ UNCHANGED <<registry, steps, ctx, last, regcall, billing>>

\* Task t calls run on a new TaskContext().
begin_run(t, resume_after) == enter(t, resume_after, TaskContext(PENDING))

\* The task goes on after the call of Step.run on step i gave result r.
AfterStep(task, r, out) ==
    LET lg == Append(task.log, LogEntry(task.i, task.before, r, out))
    IN  IF r.exception # NoException
        THEN [task EXCEPT !.pc = "done", !.ctx = r.ctx, !.log = lg,
                          !.exception = r.exception]
        ELSE IF Halts(r.ctx)
        THEN [task EXCEPT !.pc = "done", !.ctx = r.ctx, !.log = lg]
        ELSE [task EXCEPT !.pc = "loop", !.ctx = r.ctx, !.log = lg,
                          !.i = @ + 1]

\* Task t runs from the head of the loop to its next await: past the end of
\* the loop, over a step skipped by resume_after, through a Step.run that does
\* not reach the handler, or into Step.run up to the await of the handler,
\* which is called as a coroutine or through asyncio.to_thread.
advance(t, via) ==
    /\ t \in DOMAIN tasks /\ tasks[t].pc = "loop"
    /\ LET task == tasks[t]
       IN  tasks' = [tasks EXCEPT ![t] =
               IF task.i > Len(steps)
               THEN [task EXCEPT !.pc = "done", !.ctx = Finish(task.ctx)]
               ELSE IF task.skip
               THEN [task EXCEPT !.i = @ + 1,
                                 !.skip = SkipAfter(steps[task.i], task.resume_after)]
               ELSE IF ConditionSkips(steps[task.i], task.ctx)
               THEN AfterStep([task EXCEPT !.before = task.ctx],
                              [ctx |-> task.ctx, invoked |-> FALSE,
                               exception |-> NoException], OK)
               ELSE IF Resolve(steps[task.i].skill_name) # NoException
               THEN AfterStep([task EXCEPT !.before = task.ctx],
                              [ctx |-> task.ctx, invoked |-> FALSE,
                               exception |-> Resolve(steps[task.i].skill_name)], OK)
               ELSE IF Awaits(via)
               THEN [task EXCEPT !.pc = "handler", !.before = task.ctx,
                                 !.ctx = Starting(task.ctx),
                                 !.inflight = Launched(@, task.i, via)]
               ELSE AfterStep([task EXCEPT !.before = task.ctx,
                                           !.inflight = Launched(@, task.i, via)],
                              [ctx |-> Starting(task.ctx), invoked |-> TRUE,
                               exception |-> NoException], OK)]
    /\ UNCHANGED <<registry, steps, ctx, last, regcall, billing>>

\* The same with handlers that are coroutine functions.
to_await(t) == advance(t, Coroutine)

\* The handler task t awaits returns or raises, and Step.run and the loop of
\* run go on to the checks after step.run.
handler_ends(t, out) ==
    /\ t \in DOMAIN tasks /\ tasks[t].pc = "handler"
    /\ LET task == tasks[t]
           step == steps[task.i]
           c == HandlerContext(t)
           r == [ctx |-> IF out = OK
                         THEN HandlerDone(step, HandlerReturns(c, step.skill_name))
                         ELSE HandlerRaised(step, c, out),
                 invoked |-> TRUE, exception |-> NoException]
       IN  tasks' = [tasks EXCEPT ![t] =
               AfterStep([task EXCEPT !.inflight = Joined(@, task.i)], r, out)]
    /\ UNCHANGED <<registry, steps, ctx, last, regcall, billing>>

NextConcurrent ==
    \/ \E t \in Tasks, ra \in ResumeChoices(steps) : begin_run(t, ra)
    \/ \E t \in Tasks : to_await(t)
    \/ \E t \in Tasks, out \in {OK} \cup Messages : handler_ends(t, out)

SpecConcurrent == InitConcurrent /\ [][NextConcurrent]_vars

(* ------------------------------------------------------------------ *)
(* C15                                                                 *)
(* ------------------------------------------------------------------ *)

\* Task t has returned from run with what a run alone on its context, with
\* the same resume_after and the same behaviour of the handlers, ends with:
\* the same calls of Step.run and handler invocations, context and exception.
SameAsAlone(task) ==
    LET r == Orchestrator_run(task.entry, task.resume_after, OutcomeOf(task.log))
    IN  /\ r.log = task.log
        /\ r.ctx = task.ctx
        /\ r.exception = task.exception

\* A step of two tasks running over one Orchestrator and one registry leaves
\* the step list and the registry as they are, and a task that is done is
\* done with the result of a run alone.
C15_Step ==
    /\ steps' = steps
    /\ registry' = registry
    /\ \A t \in DOMAIN tasks' : tasks'[t].pc = "done" => SameAsAlone(tasks'[t])

\* C15: two calls of run on distinct contexts over the same Orchestrator and
\* registry do not interfere: under every interleaving each task ends with
\* the handler invocations, status and error trail of a run alone, and no
\* step of a run changes the step list or the registry.
C15_ConcurrentRunsDoNotInterfere == [][C15_Step]_vars

\* Over a pipeline of three steps one task awaits the handler of the first
\* step, entered before the other task began; the other task, resumed after
\* that step, ran the second handler and failed in the third meanwhile.
C15_Witness ==
    /\ Len(steps) = 3
    /\ DOMAIN tasks = Tasks
    /\ tasks["task-a"].pc = "handler" /\ tasks["task-a"].i = 1
    /\ tasks["task-a"].ctx.status = RUNNING
    /\ tasks["task-b"].pc = "done"
    /\ tasks["task-b"].resume_after = steps[1].skill_name
    /\ tasks["task-b"].ctx.status = FAILED
    /\ InvokedSteps(tasks["task-b"].log) = <<2, 3>>
    /\ SameAsAlone(tasks["task-b"])

(* ------------------------------------------------------------------ *)
(* billing/subscription.py: activate_key                               *)
(* ------------------------------------------------------------------ *)

Users == {"user-1", "user-2"}

\* Keys that verify_key accepts, named by their nonce, and one it rejects.
ValidKeys == {"nonce-1", "nonce-2"}

InvalidKey == "invalid-key"

\* The message of a rejected key, of a used key, and an active status.
KeyInvalid == "invalid"

AlreadyUsed == "already used"

Active == "active"

\* The exception of a commit that breaks a unique constraint.
IntegrityError == "IntegrityError"

NoRow == "None"

\* The unique constraint on activation_keys.nonce and on
\* subscriptions.user_id, had the database not enforced it.
Conflicts_Unchecked(seen, id, table) == FALSE

\* A row the session is about to INSERT, having seen none, breaks the unique
\* constraint on activation_keys.nonce or on subscriptions.user_id.
Conflicts(seen, id, table) == seen = NoRow /\ id \in DOMAIN table

\* session.query(...).filter_by(...).first() on a table keyed by id
First(table, id) == IF id \in DOMAIN table THEN table[id] ELSE NoRow

\* INSERT of the row of id, or UPDATE of it.
Upsert(table, id, value) ==
    [k \in DOMAIN table \cup {id} |-> IF k = id THEN value ELSE table[k]]

InitBilling ==
    /\ registry = [n \in SkillNames |-> Handler]
    /\ steps = <<>>
    /\ ctx = TaskContext(PENDING)
    /\ last = NoCall(ctx)
    /\ regcall = NoRegCall
    /\ tasks = NoTasks
    /\ billing = NoBilling

\* activate_key from its call to the check of the key: verify_key, the query
\* of the ActivationKey with the key's nonce, and the return for a used key
\* (the session commits nothing).
check_key(s, user_id, key) ==
    /\ s \notin DOMAIN billing.calls
    /\ billing' = [billing EXCEPT !.calls = Upsert(@, s,
           IF key = InvalidKey
           THEN [pc |-> "done", user_id |-> user_id, key |-> key,
                 result |-> KeyInvalid]
           ELSE IF First(billing.activation_keys, key) # NoRow
           THEN [pc |-> "done", user_id |-> user_id, key |-> key,
                 result |-> AlreadyUsed]
           ELSE [pc |-> "checked", user_id |-> user_id, key |-> key,
                 existing_key |-> First(billing.activation_keys, key)])]
    /\ UNCHANGED <<registry, steps, ctx, last, regcall, tasks>>

\* activate_key, the query of the user's Subscription.
query_sub(s) ==
    /\ s \in DOMAIN billing.calls /\ billing.calls[s].pc = "checked"
    /\ billing' = [billing EXCEPT !.calls[s] =
           [pc |-> "pending", user_id |-> @.user_id, key |-> @.key,
            existing_key |-> @.existing_key,
            sub |-> First(billing.subscriptions, @.user_id)]]
    /\ UNCHANGED <<registry, steps, ctx, last, regcall, tasks>>

\* The end of the with block: get_session flushes and commits the
\* ActivationKey marked used by the user and the user's Subscription, or rolls
\* back and raises; then get_status(user_id).
commit(s) ==
    /\ s \in DOMAIN billing.calls /\ billing.calls[s].pc = "pending"
    /\ LET call == billing.calls[s]
       IN  IF \/ Conflicts(call.existing_key, call.key, billing.activation_keys)
              \/ Conflicts(call.sub, call.user_id, billing.subscriptions)
           THEN billing' = [billing EXCEPT !.calls[s] =
                    [pc |-> "done", user_id |-> call.user_id, key |-> call.key,
                     result |-> IntegrityError]]
           ELSE billing' =
                    [activation_keys |->
                         Upsert(billing.activation_keys, call.key, call.user_id),
                     subscriptions |->
                         Upsert(billing.subscriptions, call.user_id, call.key),
                     calls |-> [billing.calls EXCEPT ![s] =
                         [pc |-> "done", user_id |-> call.user_id,
                          key |-> call.key, result |-> Active]]]
    /\ UNCHANGED <<registry, steps, ctx, last, regcall, tasks>>

\* activate_key has returned or raised; the caller may call again.
return(s) ==
    /\ s \in DOMAIN billing.calls /\ billing.calls[s].pc = "done"
    /\ billing' = [billing EXCEPT !.calls =
           [c \in DOMAIN billing.calls \ {s} |-> billing.calls[c]]]
    /\ UNCHANGED <<registry, steps, ctx, last, regcall, tasks>>

NextBilling ==
    \/ \E s \in Callers, u \in Users, k \in ValidKeys \cup {InvalidKey} :
           check_key(s, u, k)
    \/ \E s \in Callers : query_sub(s)
    \/ \E s \in Callers : commit(s)
    \/ \E s \in Callers : return(s)

SpecBilling == InitBilling /\ [][NextBilling]_vars

(* ------------------------------------------------------------------ *)
(* C20                                                                 *)
(* ------------------------------------------------------------------ *)

\* Caller s begins a call of activate_key in this step.
Begins(s) == s \notin DOMAIN billing.calls /\ s \in DOMAIN billing'.calls

\* Caller s ends its call of activate_key in this step.
Ends(s) ==
    /\ s \in DOMAIN billing'.calls /\ billing'.calls[s].pc = "done"
    /\ (s \in DOMAIN billing.calls => billing.calls[s].pc # "done")

\* One step of the callers: a key recorded as used stays recorded as used by
\* the same user; a call made with a key already recorded as used ends at
\* once with the message of a used key and changes no table; and a call that
\* ends with an active subscription was made with a key that was not recorded
\* as used, which is now recorded as used by its user, who has a subscription.
C20_Step ==
    /\ \A k \in DOMAIN billing.activation_keys :
           /\ k \in DOMAIN billing'.activation_keys
           /\ billing'.activation_keys[k] = billing.activation_keys[k]
    /\ \A s \in Callers :
           (Begins(s)
               /\ billing'.calls[s].key \in DOMAIN billing.activation_keys) =>
               /\ billing'.calls[s].pc = "done"
               /\ billing'.calls[s].result = AlreadyUsed
               /\ billing'.activation_keys = billing.activation_keys
               /\ billing'.subscriptions = billing.subscriptions
    /\ \A s \in Callers :
           (Ends(s) /\ billing'.calls[s].result = Active) =>
               /\ billing'.calls[s].key \notin DOMAIN billing.activation_keys
               /\ billing'.activation_keys[billing'.calls[s].key]
                      = billing'.calls[s].user_id
               /\ billing'.calls[s].user_id \in DOMAIN billing'.subscriptions

InitProtocol ==
    /\ registry = [n \in SkillNames |-> Handler]
    /\ steps = <<>>
    /\ ctx = TaskContext(PENDING)
    /\ last = NoCall(ctx)
    /\ regcall = NoRegCall
    /\ tasks = NoTasks
    /\ billing = NoBilling

\* The caller follows the usage of examples/run_pipeline.py: the first run on
\* the PENDING context without resume_after, every later run on the context
\* that came back AWAITING_HUMAN, with a resume_after.
Supported(resume_after) ==
    IF last.called
    THEN ctx.status = AWAITING_HUMAN /\ resume_after # NoResume
    ELSE ctx.status = PENDING /\ resume_after = NoResume

NextProtocol ==
    \/ \E n \in SkillNames, a \in BOOLEAN, c \in Conditions : add_step(n, a, c)
    \/ \E ra \in {r \in ResumeChoices(steps) : Supported(r)} :
           \E o \in Called(HandlerOutcomes(Len(steps), ctx), ra) : run(ra, o)

SpecProtocol == InitProtocol /\ [][NextProtocol]_vars

(* ------------------------------------------------------------------ *)
(* C21                                                                 *)
(* ------------------------------------------------------------------ *)

\* The five transitions of the status.
Transitions ==
    {<<PENDING, RUNNING>>, <<AWAITING_HUMAN, RUNNING>>,
     <<RUNNING, AWAITING_HUMAN>>, <<RUNNING, FAILED>>, <<RUNNING, COMPLETED>>}

\* The status stays a or goes from a to b by one of the five transitions.
StaysOrMoves(a, b) == a = b \/ <<a, b>> \in Transitions

\* The status the call of Step.run at log position k was entered with.
StatusBefore(k) ==
    IF k = 1 THEN last.entry.status ELSE last.log[k - 1].after.status

\* C21: in the supported usage every change of the status within a run is one
\* of the five transitions: a Step.run that invokes its handler takes the
\* status to RUNNING and from RUNNING to the status it returns with, a
\* Step.run that skips leaves it, and the end of run leaves it or takes
\* RUNNING to COMPLETED; so FAILED and COMPLETED are not left and PENDING is
\* not entered again.
C21_OnlyTheFiveTransitions ==
    last.called =>
        /\ \A k \in 1..Len(last.log) :
               /\ last.log[k].before.status = StatusBefore(k)
               /\ IF last.log[k].invoked
                  THEN /\ StaysOrMoves(StatusBefore(k), RUNNING)
                       /\ StaysOrMoves(RUNNING, last.log[k].after.status)
                  ELSE last.log[k].after.status = StatusBefore(k)
        /\ StaysOrMoves(StatusBefore(Len(last.log) + 1), ctx.status)
        /\ last.entry.status \in {PENDING, AWAITING_HUMAN}
        /\ ctx.status = PENDING => last.entry.status = PENDING

\* A resumed run took the status from AWAITING_HUMAN to RUNNING in its first
\* handler and from RUNNING to FAILED in its second.
C21_Witness ==
    /\ Returned /\ last.entry.status = AWAITING_HUMAN
    /\ last.resume_after = steps[1].skill_name
    /\ InvokedSteps(last.log) = <<2, 3>>
    /\ last.log[1].after.status = RUNNING
    /\ RaisedAt(2) /\ ctx.status = FAILED

(* ------------------------------------------------------------------ *)
(* One run, step by step, with handlers of both kinds                  *)
(* ------------------------------------------------------------------ *)

\* Some registry, some pipeline, no run called yet.
InitInFlight ==
    /\ registry \in Registries
    /\ steps \in Pipelines
    /\ ctx = TaskContext(PENDING)
    /\ last = NoCall(ctx)
    /\ regcall = NoRegCall
    /\ tasks = NoTasks
    /\ billing = NoBilling

\* The statuses run is entered with: a first run, a resume.
EntryStatuses == {PENDING, AWAITING_HUMAN}

NextInFlight ==
    \/ \E ra \in ResumeChoices(steps), s \in EntryStatuses :
           enter("task-a", ra, TaskContext(s))
    \/ \E via \in {Coroutine, ToThread} : advance("task-a", via)
    \/ \E out \in {OK} \cup Messages : handler_ends("task-a", out)

SpecInFlight == InitInFlight /\ [][NextInFlight]_vars

(* ------------------------------------------------------------------ *)
(* C22                                                                 *)
(* ------------------------------------------------------------------ *)

\* C22: within one call of run at most one handler is in flight: while a
\* handler called by Step.run, as a coroutine or through to_thread, has
\* neither returned nor raised, the run waits inside that Step.run, and
\* whenever the run is at the head of its loop or has returned no handler is
\* in flight, so the next handler starts only after the previous one ended.
C22_OneHandlerInFlight ==
    \A t \in DOMAIN tasks :
        /\ Cardinality(tasks[t].inflight) <= 1
        /\ tasks[t].pc = "handler" =>
               \E via \in {Coroutine, ToThread} :
                   tasks[t].inflight = {[step |-> tasks[t].i, via |-> via]}
        /\ tasks[t].pc # "handler" => tasks[t].inflight = {}

\* The run waits for the handler of its second step, run in a worker thread,
\* after the handler of the first step returned.
C22_Witness ==
    /\ "task-a" \in DOMAIN tasks
    /\ tasks["task-a"].pc = "handler"
    /\ tasks["task-a"].inflight = {[step |-> 2, via |-> ToThread]}
    /\ InvokedSteps(tasks["task-a"].log) = <<1>>

(* ------------------------------------------------------------------ *)
(* C23                                                                 *)
(* ------------------------------------------------------------------ *)

\* C23: while a handler is in flight the status of its context is RUNNING,
\* whether run was entered PENDING or AWAITING_HUMAN, and the skill of the
\* step resolves to a bound handler; and when the lookup of a step fails the
\* status is the one the step was reached with: RUNNING is set after the
\* handler was resolved, never before.
C23_RunningWhenHandlerInvoked ==
    \A t \in DOMAIN tasks :
        /\ tasks[t].pc = "handler" =>
               /\ tasks[t].ctx.status = RUNNING
               /\ Resolve(steps[tasks[t].i].skill_name) = NoException
        /\ tasks[t].exception \in {KeyError, RuntimeError} =>
               /\ tasks[t].ctx.status = tasks[t].before.status
               /\ ~tasks[t].log[Len(tasks[t].log)].invoked

\* A run entered with status AWAITING_HUMAN and resumed after the first step
\* waits for the handler of the second step, with status RUNNING.
C23_Witness ==
    /\ "task-a" \in DOMAIN tasks /\ Len(steps) = 3
    /\ tasks["task-a"].entry.status = AWAITING_HUMAN
    /\ tasks["task-a"].resume_after = steps[1].skill_name
    /\ tasks["task-a"].pc = "handler" /\ tasks["task-a"].i = 2
    /\ tasks["task-a"].before.status = AWAITING_HUMAN
    /\ tasks["task-a"].ctx.status = RUNNING

(* ------------------------------------------------------------------ *)
(* Handlers that return a context of their own                         *)
(* ------------------------------------------------------------------ *)

\* A registry wired for every skill, a new Orchestrator, a new TaskContext()
\* with the task_id its constructor generated.
InitIdentity ==
    /\ registry = [n \in SkillNames |-> Handler]
    /\ steps = <<>>
    /\ ctx = Identified(TaskContext(PENDING), "task-id-1")
    /\ last = NoCall(ctx)
    /\ regcall = NoRegCall
    /\ tasks = NoTasks
    /\ billing = NoBilling

\* What the handlers do during one run: all return the context they were
\* given, or one of them raises or returns another context.
IdentityOutcomes(n, c) ==
    HandlerOutcomes(n, c) \cup
    {[k \in 1..n |-> IF k = f THEN ReturnsOther ELSE OK] : f \in 1..n}

NextIdentity ==
    \/ \E n \in SkillNames, a \in BOOLEAN : add_step(n, a, NoCondition)
    \/ \E ra \in ResumeChoices(steps) :
           \E o \in Called(IdentityOutcomes(Len(steps), ctx), ra) : run(ra, o)

SpecIdentity == InitIdentity /\ [][NextIdentity]_vars

(* ------------------------------------------------------------------ *)
(* C24                                                                 *)
(* ------------------------------------------------------------------ *)

\* C24: the context run returns carries the task_id of the context run was
\* given, after any steps and whatever the handlers returned.
C24_TaskIdImmutable ==
    last.called => ctx.task_id = last.entry.task_id

(* ------------------------------------------------------------------ *)
(* The caller of the suspend/resume protocol                           *)
(* ------------------------------------------------------------------ *)

\* Every handler of a pipeline of n steps returns.
AllSucceed(n) == [k \in 1..n |-> OK]

\* The skill name of the step that suspended the latest run: the last step
\* whose handler it called, or, when it called none, the step that had
\* suspended the run before.
Suspender ==
    LET inv == InvokedSteps(last.log)
    IN  IF inv # <<>> THEN steps[inv[Len(inv)]].skill_name ELSE last.resume_after

\* The caller: run(ctx) on the PENDING context, then, each time run returned
\* AWAITING_HUMAN, run(ctx, resume_after = the step that suspended).
call ==
    \/ /\ ~last.called
       /\ ctx.status = PENDING
       /\ run(NoResume, AllSucceed(Len(steps)))
    \/ /\ last.called
       /\ ctx.status = AWAITING_HUMAN
       /\ run(Suspender, AllSucceed(Len(steps)))

NextProgress ==
    \/ \E n \in SkillNames, a \in BOOLEAN, c \in Conditions : add_step(n, a, c)
    \/ call

\* The caller does call again after a suspension: weak fairness on its calls.
SpecProgress == InitProtocol /\ [][NextProgress]_vars /\ WF_vars(call)

(* ------------------------------------------------------------------ *)
(* C25                                                                 *)
(* ------------------------------------------------------------------ *)

\* C25: once the caller has started a pipeline of at least one step whose
\* handlers all succeed, and resumes it after every suspension, the status
\* is eventually COMPLETED, wherever the await_human flags are.
C25_EventuallyCompleted ==
    [](last.called /\ Len(steps) >= 1 => <>(ctx.status = COMPLETED))

(* ------------------------------------------------------------------ *)
(* C26                                                                 *)
(* ------------------------------------------------------------------ *)

\* C26: in a run entered AWAITING_HUMAN with resume_after naming a step,
\* when the first step after the resume point is skipped by its condition
\* and a step follows it, Step.run is called on that following step too.
C26_SkippedStepNeverStops ==
    (/\ last.called
     /\ last.exception = NoException
     /\ last.entry.status = AWAITING_HUMAN
     /\ StepsNamed(last.resume_after) # {}
     /\ FirstRun(last.resume_after) < Len(steps)
     /\ ConditionSkips(steps[FirstRun(last.resume_after)], last.entry))
    => Len(last.log) >= 2

(* ------------------------------------------------------------------ *)
(* Pipelines with several steps of one skill                           *)
(* ------------------------------------------------------------------ *)

\* The skills the steps of these pipelines name: add_step takes any name, so
\* a name may come back.
RepeatedNames == {SkillOrder[1], SkillOrder[2]}

\* The pipelines of up to MaxSteps unconditional steps over these names.
RepeatingPipelines ==
    UNION {{[k \in 1..n |-> Step(nm[k], aw[k], NoCondition)] :
               nm \in [1..n -> RepeatedNames], aw \in [1..n -> BOOLEAN]} :
           n \in 1..MaxSteps}

\* A registry wired for every skill, one of these pipelines built, a new
\* TaskContext().
InitRepeating ==
    /\ registry = [n \in SkillNames |-> Handler]
    /\ steps \in RepeatingPipelines
    /\ ctx = TaskContext(PENDING)
    /\ last = NoCall(ctx)
    /\ regcall = NoRegCall
    /\ tasks = NoTasks
    /\ billing = NoBilling

NextRepeating ==
    \E ra \in ResumeChoices(steps) :
        \E o \in Called(HandlerOutcomes(Len(steps), ctx), ra) : run(ra, o)

SpecRepeating == InitRepeating /\ [][NextRepeating]_vars

(* ------------------------------------------------------------------ *)
(* C27                                                                 *)
(* ------------------------------------------------------------------ *)

\* C27: when resume_after names several steps, the run calls the handlers of
\* the steps after the first of them, one after the other and later steps of
\* the same name included, and stops before the end of the pipeline only on
\* a failure or a suspension.
C27_ResumesAfterFirstMatch ==
    (/\ last.called
     /\ Cardinality(StepsNamed(last.resume_after)) >= 2)
    => LET first == FirstRun(last.resume_after) - 1
       IN  /\ \A j \in StepsNamed(last.resume_after) : first <= j
           /\ \A k \in 1..Len(last.log) :
                  last.log[k].step = first + k /\ last.log[k].invoked
           /\ Len(last.log) >= 1
           /\ \/ Len(last.log) = Len(steps) - first
              \/ Halts(last.log[Len(last.log)].after)

\* Steps 1 and 3 name the same skill and both suspend. The run resumed after
\* that name on the context the third step had suspended (the second step
\* had already written to it) called the second handler again, then the third.
C27_Witness ==
    /\ Returned /\ Len(steps) = 3
    /\ steps[1].skill_name = steps[3].skill_name
    /\ steps[2].skill_name # steps[1].skill_name
    /\ steps[1].await_human /\ steps[3].await_human
    /\ last.resume_after = steps[3].skill_name
    /\ last.entry.status = AWAITING_HUMAN
    /\ steps[2].skill_name \in last.entry.written
    /\ InvokedSteps(last.log) = <<2, 3>>
    /\ ctx.status = AWAITING_HUMAN

(* ------------------------------------------------------------------ *)
(* One context run again and again, touched by nothing else            *)
(* ------------------------------------------------------------------ *)

\* A new TaskContext() handed to run any number of times, with any
\* resume_after: its status and its error trail are what Step and
\* Orchestrator made them.
SpecReruns == InitProtocol /\ [][Next]_vars

(* ------------------------------------------------------------------ *)
(* C28                                                                 *)
(* ------------------------------------------------------------------ *)

\* The number of entries the latest run appended to the error trail.
Appended == Len(ctx.errors) - Len(last.entry.errors)

\* C28, as stated: at return of a run the status is FAILED if and only if
\* the run appended an entry to the error trail; a run appends at most one
\* entry; a run that returns AWAITING_HUMAN or COMPLETED appended none.
C28_FailedIffAppended ==
    Returned =>
        /\ IsPrefix(last.entry.errors, ctx.errors)
        /\ Appended <= 1
        /\ ctx.status = FAILED <=> Appended = 1
        /\ ctx.status \in {AWAITING_HUMAN, COMPLETED} => Appended = 0

\* C28, amended: at return of a run the status is FAILED if and only if the
\* run appended an entry to the error trail, or it was entered FAILED and
\* called no handler; a run appends at most one entry; a run that returns
\* AWAITING_HUMAN or COMPLETED appended none.
C28_FailedIffAppendedOrKept ==
    Returned =>
        /\ IsPrefix(last.entry.errors, ctx.errors)
        /\ Appended <= 1
        /\ ctx.status = FAILED <=>
               \/ Appended = 1
               \/ last.entry.status = FAILED /\ InvokedSteps(last.log) = <<>>
        /\ ctx.status \in {AWAITING_HUMAN, COMPLETED} => Appended = 0

\* A run entered on the context an earlier run had failed, resumed after the
\* last of three steps: it called no handler and returned FAILED with the
\* trail as it was.
C28_Witness ==
    /\ Returned /\ Len(steps) = 3
    /\ last.entry.status = FAILED
    /\ Len(last.entry.errors) = 1
    /\ last.resume_after = steps[3].skill_name
    /\ last.log = <<>>
    /\ ctx.status = FAILED
    /\ Appended = 0

(* ------------------------------------------------------------------ *)
(* Conditional steps over a registry that is not fully wired           *)
(* ------------------------------------------------------------------ *)

\* Any skill, wired or not, with a condition or none: add_step looks nothing up.
NextLazy ==
    \/ \E n \in SkillNames, c \in Conditions : add_step(n, FALSE, c)
    \/ \E ra \in ResumeChoices(steps) :
           \E o \in Called(HandlerOutcomes(Len(steps), ctx), ra) : run(ra, o)

SpecLazy == InitWiring /\ [][NextLazy]_vars

(* ------------------------------------------------------------------ *)
(* C29                                                                 *)
(* ------------------------------------------------------------------ *)

\* The steps whose skill is not in the registry or has no handler bound.
UnwiredSteps == {j \in 1..Len(steps) : Resolve(steps[j].skill_name) # NoException}

\* C29: a lookup error leaves run only from the call of Step.run that reached
\* an unwired step, the last call of the run; the handlers called before it
\* have run and what they wrote is in the context, whose status is the
\* RUNNING the step before set; an unwired step before the resume point is
\* never passed to Step.run, and one skipped by its condition raises nothing.
C29_WiringCheckedLazily ==
    last.called =>
        /\ last.exception # NoException =>
               /\ last.exception \in {KeyError, RuntimeError}
               /\ Len(last.log) >= 1
               /\ LookupFailsAt(Len(last.log))
               /\ last.exception = Resolve(steps[last.log[Len(last.log)].step].skill_name)
               /\ \A k \in 1..(Len(last.log) - 1) :
                      last.log[k].invoked =>
                          /\ last.log[k].outcome = OK
                          /\ steps[last.log[k].step].skill_name \in ctx.written
               /\ InvokedSteps(last.log) # <<>> => ctx.status = RUNNING
        /\ \A k \in 1..Len(last.log) :
               /\ last.log[k].step >= FirstRun(last.resume_after)
               /\ (/\ last.log[k].step \in UnwiredSteps
                   /\ ConditionSkips(steps[last.log[k].step], last.log[k].before))
                  => (k < Len(last.log) \/ last.exception = NoException)
        /\ (\A k \in 1..Len(last.log) : ~LookupFailsAt(k)) =>
               last.exception = NoException

\* The third of three steps had no handler: add_step took it, run started,
\* the first two handlers ran and their writes are in the context, then the
\* exception left run with the status RUNNING.
C29_Witness ==
    /\ last.called /\ Len(steps) = 3
    /\ UnwiredSteps = {3}
    /\ last.resume_after = NoResume
    /\ last.exception = RuntimeError
    /\ InvokedSteps(last.log) = <<1, 2>>
    /\ {steps[1].skill_name, steps[2].skill_name} \subseteq ctx.written
    /\ ctx.status = RUNNING

(* ------------------------------------------------------------------ *)
(* C30                                                                 *)
(* ------------------------------------------------------------------ *)

\* C30: after a call of load_all, however it ended, no skill of the registry
\* has a handler, so Step.run on any of them raises the unbound-handler
\* error, also for the skills that were bound before the call; and when the
\* call failed because the skills directory is missing, the registry is empty.
C30_LoadAllKeepsNothing ==
    regcall.op = "load_all" =>
        /\ \A n \in DOMAIN registry :
               registry[n] = NoHandler /\ Resolve(n) = RuntimeError
        /\ \A n \in DOMAIN regcall.before :
               regcall.before[n] = Handler => Resolve(n) # NoException
        /\ ~regcall.scan.exists =>
               /\ regcall.exception = FileNotFoundError
               /\ registry = <<>>

\* A skill that was registered and bound is discovered again by load_all: it
\* is registered, without a handler.
C30_Witness ==
    /\ regcall.op = "load_all" /\ regcall.exception = NoException
    /\ \E n \in DOMAIN regcall.before \cap DOMAIN registry :
           /\ regcall.before[n] = Handler
           /\ registry[n] = NoHandler
           /\ Resolve(n) = RuntimeError

====
